---------------------------- MODULE Spec2Model ----------------------------
(***************************************************************************)
(* Model of boost/sweater/threading/hardware_concurrency.cpp:              *)
(* the container-quota reader (get_docker_limit, read_int), the cached     *)
(* docker_quota global, the two resolvers get_hardware_concurrency_max()   *)
(* and hardware_concurrency_current() in every build variant, the          *)
(* init_priority( 101 ) globals and the Android slow_thread_signals flag.  *)
(***************************************************************************)
EXTENDS Integers, Sequences, FiniteSets, TLC

(***************************************************************************)
(* Text: a C string is the sequence of its characters up to, not           *)
(* including, the terminating NUL.                                         *)
(***************************************************************************)
Digits == <<"0", "1", "2", "3", "4", "5", "6", "7", "8", "9">>

IsDigit(c) == \E i \in 1..10 : Digits[i] = c

DigitVal(c) == (CHOOSE i \in 1..10 : Digits[i] = c) - 1

IsSpace(c) == c \in {" ", "\n", "\t"}

(***************************************************************************)
(* int is 32 bits wide.  Values that may leave the int range are held as   *)
(* two 16-bit limbs [hi, lo] (the value modulo 2^32).                      *)
(***************************************************************************)
Limb == 65536

INT_MAX == 2147483647

\* static_cast< int >( long ): the low 32 bits, read as two's complement.
ToInt(hi, lo) == IF hi >= Limb \div 2 THEN (hi - Limb) * Limb + lo ELSE hi * Limb + lo

\* Two's complement negation modulo 2^32.
NegLimbs(hi, lo) ==
    [hi |-> (Limb - 1 - hi + (IF lo = 0 THEN 1 ELSE 0)) % Limb, lo |-> (Limb - lo) % Limb]

RECURSIVE SkipSpace(_, _)
SkipSpace(s, i) == IF i <= Len(s) /\ IsSpace(s[i]) THEN SkipSpace(s, i + 1) ELSE i

\* acc := acc * 10 + digit for every leading decimal digit of s from i on.
RECURSIVE ParseDigits(_, _, _, _)
ParseDigits(s, i, hi, lo) ==
    IF i <= Len(s) /\ IsDigit(s[i])
    THEN LET l == lo * 10 + DigitVal(s[i])
         IN  ParseDigits(s, i + 1, (hi * 10 + l \div Limb) % Limb, l % Limb)
    ELSE [hi |-> hi, lo |-> lo, end |-> i]

\* static_cast< int >( std::strtol( s + start - 1, &end, 10 ) ): leading white
\* space, an optional sign, decimal digits; with no digits the value is 0 and
\* end is where the scan started.
strtol(s, start) ==
    LET i == SkipSpace(s, start)
        signed == i <= Len(s) /\ s[i] \in {"-", "+"}
        neg == signed /\ s[i] = "-"
        j == IF signed THEN i + 1 ELSE i
        d == ParseDigits(s, j, 0, 0)
        n == IF neg THEN NegLimbs(d.hi, d.lo) ELSE [hi |-> d.hi, lo |-> d.lo]
    IN  IF d.end = j
        THEN [val |-> 0, end |-> start]
        ELSE [val |-> ToInt(n.hi, n.lo), end |-> d.end]

\* std::atoi( s )
atoi(s) == strtol(s, 1).val

Max2(a, b) == IF a >= b THEN a ELSE b

\* C++ integer division truncates toward zero (d > 0).
TruncDiv(a, d) == IF a >= 0 \/ a % d = 0 THEN a \div d ELSE a \div d + 1

\* int + int: [ovf, val], val being the sum wrapped to 32 bits.
AddInt(a, b) ==
    IF a > 0 /\ b > 0 /\ a > INT_MAX - b
    THEN [ovf |-> TRUE, val |-> (a - INT_MAX) + (b - INT_MAX) - 2]
    ELSE [ovf |-> FALSE, val |-> a + b]

(***************************************************************************)
(* The kernel interface.  A file is [exists, data]; a call on it ends in   *)
(* one of the modes below.  Bytes of a stack buffer that read() did not    *)
(* write are uninitialized: whatever they hold up to the first NUL is one  *)
(* of Garbage.                                                             *)
(***************************************************************************)
Modes == {"ok", "eacces", "read_err", "read_zero", "close_fail"}

Garbage == {<<>>, <<"2", "0", "0", "0", "0", "0">>}

NoFile == [exists |-> FALSE, data |-> <<>>]

File(text) == [exists |-> TRUE, data |-> text]

\* sizeof( value ) in read_int and sizeof( value_pair ) in get_docker_limit
ValueSize == 64

ValuePairSize == 128

\* ::open( path, O_RDONLY, 0 ) != -1
open(file, mode) == file.exists /\ mode # "eacces"

\* ::read( fd, buffer, size )
read(file, mode, size) ==
    CASE mode = "read_err" -> -1
      [] mode = "read_zero" -> 0
      [] OTHER -> IF Len(file.data) < size THEN Len(file.data) ELSE size

\* ::close( fd ) == 0
close(mode) == mode # "close_fail"

\* BOOST_VERIFY( cond ): the condition is always evaluated; a build with
\* assertions enabled aborts when it is false.
BOOST_VERIFY_fails(asserts, cond) == asserts /\ ~cond

\* int read_int( file_path ): [val, aborted]
read_int(file, mode, g, asserts) ==
    IF ~open(file, mode)
    THEN [val |-> -1, aborted |-> FALSE]
    ELSE LET n == read(file, mode, ValueSize)
             value == IF n > 0 THEN SubSeq(file.data, 1, n) \o g ELSE g
         IN  [val |-> atoi(value),
              aborted |-> BOOST_VERIFY_fails(asserts, n < ValueSize)
                          \/ BOOST_VERIFY_fails(asserts, close(mode))]

\* Lines 115-121: the rounding.  cfs_quota + cfs_period / 2 is an int sum;
\* when it overflows the behaviour is undefined: the build either wraps
\* (trapv = FALSE) or traps (-ftrapv, trapv = TRUE).
Resolve(cfs_quota, cfs_period, trapv) ==
    IF (cfs_quota > 0) /\ (cfs_period > 0)
    THEN LET sum == AddInt(cfs_quota, cfs_period \div 2)
         IN  IF sum.ovf /\ trapv
             THEN [outcome |-> "trap", value |-> 0]
             ELSE [outcome |-> "returned",
                   value |-> Max2(TruncDiv(sum.val, cfs_period), 1)]
    ELSE [outcome |-> "returned", value |-> -1]

\* get_docker_limit() falling back to the legacy files also when cpu.max
\* opened but holds no quota.
get_docker_limit_fallback(f, io, asserts) ==
    LET v2 == open(f.max, io.max)
        n == read(f.max, io.max, ValuePairSize)
        value_pair == IF n > 0 THEN SubSeq(f.max.data, 1, n) \o io.gmax ELSE <<>>
        first == strtol(value_pair, 1)
        second == strtol(value_pair, first.end)
        v2abort == BOOST_VERIFY_fails(asserts, n < ValuePairSize)
                   \/ BOOST_VERIFY_fails(asserts, close(io.max))
        rq == read_int(f.quota, io.quota, io.gquota, asserts)
        rp == read_int(f.period, io.period, io.gperiod, asserts)
        cfs_quota == IF v2 /\ first.val > 0 THEN first.val ELSE rq.val
        cfs_period == IF v2 /\ first.val > 0 THEN second.val ELSE rp.val
        aborted == IF v2 THEN v2abort ELSE rq.aborted \/ rp.aborted
        res == Resolve(cfs_quota, cfs_period, io.trapv)
    IN  [outcome |-> IF aborted THEN "assert" ELSE res.outcome,
         value |-> IF aborted THEN 0 ELSE res.value,
         v2 |-> v2,
         opened |-> IF v2 THEN {"cpu.max"}
                    ELSE {n2 \in {"cpu.cfs_quota_us", "cpu.cfs_period_us"} :
                            IF n2 = "cpu.cfs_quota_us" THEN open(f.quota, io.quota)
                            ELSE open(f.period, io.period)},
         tried |-> IF v2 THEN {"cpu.max"}
                   ELSE {"cpu.max", "cpu.cfs_quota_us", "cpu.cfs_period_us"},
         cfs_quota |-> cfs_quota,
         cfs_period |-> cfs_period,
         failed |-> IF v2 THEN {n2 \in {"cpu.max"} : io.max # "ok"}
                    ELSE {n2 \in {"cpu.cfs_quota_us", "cpu.cfs_period_us"} :
                            IF n2 = "cpu.cfs_quota_us"
                            THEN ~f.quota.exists \/ io.quota # "ok"
                            ELSE ~f.period.exists \/ io.period # "ok"}]

\* auto get_docker_limit(): f is the file system, io the mode of each file's
\* calls, the garbage of each buffer and the build's overflow behaviour.
get_docker_limit(f, io, asserts) ==
    LET v2 == open(f.max, io.max)
        n == read(f.max, io.max, ValuePairSize)
        value_pair == IF n > 0 THEN SubSeq(f.max.data, 1, n) \o io.gmax ELSE <<>>
        first == strtol(value_pair, 1)
        second == strtol(value_pair, first.end)
        v2abort == BOOST_VERIFY_fails(asserts, n < ValuePairSize)
                   \/ BOOST_VERIFY_fails(asserts, close(io.max))
        rq == read_int(f.quota, io.quota, io.gquota, asserts)
        rp == read_int(f.period, io.period, io.gperiod, asserts)
        cfs_quota == IF v2 THEN first.val ELSE rq.val
        cfs_period == IF v2 THEN second.val ELSE rp.val
        aborted == IF v2 THEN v2abort ELSE rq.aborted \/ rp.aborted
        res == Resolve(cfs_quota, cfs_period, io.trapv)
    IN  [outcome |-> IF aborted THEN "assert" ELSE res.outcome,
         value |-> IF aborted THEN 0 ELSE res.value,
         v2 |-> v2,
         opened |-> IF v2 THEN {"cpu.max"}
                    ELSE {n2 \in {"cpu.cfs_quota_us", "cpu.cfs_period_us"} :
                            IF n2 = "cpu.cfs_quota_us" THEN open(f.quota, io.quota)
                            ELSE open(f.period, io.period)},
         tried |-> IF v2 THEN {"cpu.max"}
                   ELSE {"cpu.max", "cpu.cfs_quota_us", "cpu.cfs_period_us"},
         cfs_quota |-> cfs_quota,
         cfs_period |-> cfs_period,
         failed |-> IF v2 THEN {n2 \in {"cpu.max"} : io.max # "ok"}
                    ELSE {n2 \in {"cpu.cfs_quota_us", "cpu.cfs_period_us"} :
                            IF n2 = "cpu.cfs_quota_us"
                            THEN ~f.quota.exists \/ io.quota # "ok"
                            ELSE ~f.period.exists \/ io.period # "ok"}]

(***************************************************************************)
(* Build variants (the preprocessor branches of lines 58, 63, 142, 148,    *)
(* 150, 185) and the environment.                                          *)
(***************************************************************************)
Variants == {"single", "docker", "emscripten", "linux", "std"}

\* hardware_concurrency_t is an unsigned integer type of hcBits bits.
HcBits == 16

\* android: __ANDROID__ (an Android build is a __linux__ build); asserts:
\* BOOST_VERIFY aborts; threading: emscripten_has_threading_support().
Builds ==
    {b \in [variant : Variants, android : BOOLEAN, asserts : BOOLEAN,
            threading : BOOLEAN] :
        /\ b.android => b.variant = "linux"
        /\ b.asserts => b.variant = "docker"
        /\ b.variant # "emscripten" => b.threading}

\* Largest processor count the OS probes report here; they may also report
\* -1 (sysconf failure) and 0 (count not computable).
MaxCores == 2

Counts == -1 .. MaxCores

OsStates == [conf : Counts, onln : Counts]

\* At process start every configured processor is online.
BootOsStates == {o \in OsStates : o.conf = o.onln}

\* Contents of /sys/fs/cgroup/cpu.max
Txt_max == <<"m", "a", "x", " ", "1", "0", "0", "0", "0", "0", "\n">>

Txt_150000_100000 ==
    <<"1", "5", "0", "0", "0", "0", " ", "1", "0", "0", "0", "0", "0", "\n">>

Txt_50000_100000 ==
    <<"5", "0", "0", "0", "0", " ", "1", "0", "0", "0", "0", "0", "\n">>

Txt_intmax_100000 ==
    <<"2", "1", "4", "7", "4", "8", "3", "6", "4", "7", " ",
      "1", "0", "0", "0", "0", "0", "\n">>

\* Contents of the legacy cpu.cfs_quota_us and cpu.cfs_period_us
Txt_200000 == <<"2", "0", "0", "0", "0", "0", "\n">>

Txt_minus1 == <<"-", "1", "\n">>

Txt_100000 == <<"1", "0", "0", "0", "0", "0", "\n">>

MaxFiles ==
    {NoFile, File(<<>>), File(Txt_max), File(Txt_150000_100000),
     File(Txt_50000_100000), File(Txt_intmax_100000)}

QuotaFiles == {NoFile, File(Txt_200000), File(Txt_minus1)}

PeriodFiles == {NoFile, File(Txt_100000)}

\* The legacy controller is mounted (both files exist) or it is not.
FileSystems ==
    {f \in [max : MaxFiles, quota : QuotaFiles, period : PeriodFiles] :
        /\ f.quota.exists <=> f.period.exists
        /\ f.quota.data = Txt_minus1 => ~f.max.exists}

NoFileSystem == [max |-> NoFile, quota |-> NoFile, period |-> NoFile]

\* The quota is marked unlimited ('max'), or is zero or negative, or has a
\* non-positive or missing period, or its files are absent, in both of the
\* interfaces.
NoQuota(f) ==
    /\ \/ ~f.max.exists
       \/ LET first == strtol(f.max.data, 1)
          IN  first.val <= 0 \/ strtol(f.max.data, first.end).val <= 0
    /\ \/ ~f.quota.exists
       \/ ~f.period.exists
       \/ atoi(f.quota.data) <= 0
       \/ atoi(f.period.data) <= 0

\* android_get_device_api_level() and the threshold of line 187
SlowBelowApiLevel == 24

ApiLevels == (SlowBelowApiLevel - 1) .. (SlowBelowApiLevel + 1)

\* init_priority( 101 ) of lines 129, 180, 189
InitPriority == 101

\* Another translation unit's global object whose constructor sizes a thread
\* pool: its init priority (101 is the first one available; any larger
\* number, the default included, runs later) and its place in the link order.
Clients ==
    {c \in [priority : {InitPriority, InitPriority + 1}, linkedFirst : BOOLEAN] :
        c.linkedFirst => c.priority = InitPriority}

NumThreads == 2

Threads == 1 .. NumThreads

MaxEnvChanges == 1

(***************************************************************************)
(* The program state.                                                      *)
(***************************************************************************)
VARIABLES
    build,          \* the build variant
    client,         \* the other translation unit's global object
    fs,             \* the cgroup files
    os,             \* what the OS probes report now
    apiLevel,       \* android_get_device_api_level()
    phase,          \* "static_init", "main" or "aborted"
    initQueue,      \* dynamic initializers not yet run, in their order
    docker_quota,   \* the global of line 129: [state, value, init, writes]
    probe,          \* the running get_docker_limit(): its locals; the runs so far
    hardware_concurrency_max,   \* the global of line 178
    slow_thread_signals,        \* the global of line 189
    threads,        \* the pool threads: [pc, seen], seen the docker_quota read
    lastCall,       \* the latest call of a resolver: [fn, ret, count, early, env]
    nEnv,           \* changes of the environment so far
    noQuotaSoFar    \* the files have marked no quota since the process began

vars ==
    <<build, client, fs, os, apiLevel, phase, initQueue, docker_quota, probe,
      hardware_concurrency_max, slow_thread_signals, threads, lastCall,
      nEnv, noQuotaSoFar>>

\* static_cast< hardware_concurrency_t >( x )
ToHc(x) == x % (2 ^ HcBits)

\* hardware_concurrency_t get_hardware_concurrency_max(): lines 61, 137,
\* 146-156.  r1 and r2 are what the two reads of docker_quota yield.
get_hardware_concurrency_max(b, r1, r2, o) ==
    CASE b.variant = "single" -> 1
      [] b.variant = "docker" -> ToHc(IF r1 # -1 THEN r2 ELSE o.conf)
      [] b.variant = "emscripten" -> ToHc(IF b.threading THEN o.conf ELSE 1)
      [] b.variant = "linux" -> ToHc(o.conf)
      [] OTHER -> ToHc(o.onln)

\* hardware_concurrency_current() passing the online count through even
\* when a quota is present.
hardware_concurrency_current_unlimited(b, r1, r2, o) ==
    CASE b.variant = "single" -> 1
      [] b.variant = "emscripten" -> ToHc(IF b.threading THEN o.conf ELSE 1)
      [] OTHER -> ToHc(o.onln)

\* hardware_concurrency_t hardware_concurrency_current(): lines 60, 140,
\* 159-171.
hardware_concurrency_current(b, r1, r2, o) ==
    CASE b.variant = "single" -> 1
      [] b.variant = "docker" -> ToHc(IF r1 # -1 THEN r2 ELSE o.onln)
      [] b.variant = "emscripten" -> ToHc(get_hardware_concurrency_max(b, r1, r2, o))
      [] b.variant = "linux" -> ToHc(o.onln)
      [] OTHER -> ToHc(o.onln)

\* The threshold taken inclusively.
slow_thread_signals_t_inclusive(api) == api <= SlowBelowApiLevel

\* slow_thread_signals_t::slow_thread_signals_t(): line 187
slow_thread_signals_t(api) == api < SlowBelowApiLevel

\* The objects of this translation unit with a dynamic initializer, in the
\* order of their definitions (all of priority 101).
OwnInitializers(b) ==
    (IF b.variant = "docker" THEN <<"docker_quota">> ELSE <<>>)
    \o <<"hardware_concurrency_max">>
    \o (IF b.android THEN <<"slow_thread_signals">> ELSE <<>>)

\* Initializers run by ascending priority number and, within one priority,
\* in link order.
InitOrder(b, c) ==
    IF c.priority < InitPriority \/ (c.priority = InitPriority /\ c.linkedFirst)
    THEN <<"client">> \o OwnInitializers(b)
    ELSE OwnInitializers(b) \o <<"client">>

NoProbe ==
    [runs |-> 0, outcome |-> "none", value |-> 0, v2 |-> FALSE, opened |-> {},
     tried |-> {}, cfs_quota |-> 0, cfs_period |-> 0,
     failed |-> {}]

NoCall == [fn |-> "none", ret |-> 0, count |-> 0, early |-> FALSE, env |-> 0]

Init ==
    /\ build \in Builds
    /\ client \in Clients
    /\ fs \in (IF build.variant = "docker" THEN FileSystems ELSE {NoFileSystem})
    /\ os \in BootOsStates
    /\ apiLevel \in (IF build.android THEN ApiLevels ELSE {0})
    /\ phase = "static_init"
    /\ initQueue = InitOrder(build, client)
    \* static storage is zero-initialized before any dynamic initializer runs
    /\ docker_quota = [state |-> "zero", value |-> 0, init |-> 0, writes |-> 0]
    /\ probe = NoProbe
    /\ hardware_concurrency_max = [constructed |-> FALSE, value |-> 0]
    /\ slow_thread_signals = [constructed |-> FALSE, value |-> FALSE]
    /\ threads = [t \in Threads |-> [pc |-> "idle", seen |-> 0]]
    /\ lastCall = NoCall
    /\ nEnv = 0
    /\ noQuotaSoFar = NoQuota(fs)

(***************************************************************************)
(* Static initialization.                                                  *)
(***************************************************************************)
\* What the calls on a file can do: a missing file only fails to open.
ModesOf(file) == IF file.exists THEN Modes ELSE {"ok"}

\* What the bytes after those read() wrote can hold.  After a text that
\* ends in a newline no parse reaches them; value_pair[ 0 ] is zeroed before
\* the read (line 100), value is not (line 73).
GarbageAfter(file, mode, size, zeroed) ==
    LET n == read(file, mode, size)
    IN  IF ~open(file, mode) THEN {<<>>}
        ELSE IF n <= 0 THEN (IF zeroed THEN {<<>>} ELSE Garbage)
        ELSE IF file.data[n] = "\n" THEN {<<>>}
        ELSE Garbage

\* What one read of docker_quota can yield: its value, or, while the
\* constructor is storing it, the old or the new value.
DqReads ==
    IF docker_quota.state = "constructing"
    THEN {docker_quota.value, docker_quota.init}
    ELSE {docker_quota.value}

\* docker_quota_t(): value{ get_docker_limit() }, up to the store.
ConstructDockerQuotaBegin ==
    /\ phase = "static_init"
    /\ initQueue # <<>> /\ Head(initQueue) = "docker_quota"
    /\ docker_quota.state = "zero"
    /\ \E mmax \in ModesOf(fs.max) :
       \E mquota \in (IF open(fs.max, mmax) THEN {"ok"} ELSE ModesOf(fs.quota)),
          mperiod \in (IF open(fs.max, mmax) THEN {"ok"} ELSE ModesOf(fs.period)) :
       \E gmax \in GarbageAfter(fs.max, mmax, ValuePairSize, TRUE),
          gquota \in (IF open(fs.max, mmax) THEN {<<>>}
                      ELSE GarbageAfter(fs.quota, mquota, ValueSize, FALSE)),
          gperiod \in (IF open(fs.max, mmax) THEN {<<>>}
                       ELSE GarbageAfter(fs.period, mperiod, ValueSize, FALSE)),
          trapv \in BOOLEAN :
          LET io == [max |-> mmax, quota |-> mquota, period |-> mperiod,
                     gmax |-> gmax, gquota |-> gquota, gperiod |-> gperiod,
                     trapv |-> trapv]
              r == get_docker_limit(fs, io, build.asserts)
          IN  /\ trapv => r.outcome = "trap"
              /\ probe' = [runs |-> probe.runs + 1] @@ r
              /\ IF r.outcome = "returned"
                 THEN /\ docker_quota' = [docker_quota EXCEPT
                                            !.state = "constructing", !.init = r.value]
                      /\ phase' = phase
                 ELSE /\ phase' = "aborted"
                      /\ docker_quota' = docker_quota
    /\ UNCHANGED <<build, client, fs, os, apiLevel, initQueue,
                   hardware_concurrency_max, slow_thread_signals, threads,
                   lastCall, nEnv, noQuotaSoFar>>

\* The store of the member initializer; the object's lifetime begins, and
\* the locals of get_docker_limit() are gone.
ConstructDockerQuotaEnd ==
    /\ phase = "static_init"
    /\ docker_quota.state = "constructing"
    /\ docker_quota' = [docker_quota EXCEPT
                          !.state = "constructed", !.value = docker_quota.init,
                          !.writes = docker_quota.writes + 1]
    /\ probe' = [NoProbe EXCEPT !.runs = probe.runs]
    /\ initQueue' = Tail(initQueue)
    /\ UNCHANGED <<build, client, fs, os, apiLevel, phase,
                   hardware_concurrency_max, slow_thread_signals, threads,
                   lastCall, nEnv, noQuotaSoFar>>

\* hardware_concurrency_max_t(): the cached get_hardware_concurrency_max()
ConstructHardwareConcurrencyMax ==
    /\ phase = "static_init"
    /\ initQueue # <<>> /\ Head(initQueue) = "hardware_concurrency_max"
    /\ hardware_concurrency_max' =
         [constructed |-> TRUE,
          value |-> get_hardware_concurrency_max(
                        build, docker_quota.value, docker_quota.value, os)]
    /\ initQueue' = Tail(initQueue)
    /\ UNCHANGED <<build, client, fs, os, apiLevel, phase, docker_quota, probe,
                   slow_thread_signals, threads, lastCall,
                   nEnv, noQuotaSoFar>>

ConstructSlowThreadSignals ==
    /\ phase = "static_init"
    /\ initQueue # <<>> /\ Head(initQueue) = "slow_thread_signals"
    /\ slow_thread_signals' =
         [constructed |-> TRUE, value |-> slow_thread_signals_t(apiLevel)]
    /\ initQueue' = Tail(initQueue)
    /\ UNCHANGED <<build, client, fs, os, apiLevel, phase, docker_quota, probe,
                   hardware_concurrency_max, threads, lastCall,
                   nEnv, noQuotaSoFar>>

(***************************************************************************)
(* Calls of the resolvers.                                                 *)
(***************************************************************************)
\* The OS probe a resolver falls back to: get_nprocs_conf(), get_nprocs(),
\* emscripten_num_logical_cores() or std::thread::hardware_concurrency().
OsCount(b, fn, o) ==
    CASE b.variant = "emscripten" -> o.conf
      [] b.variant = "std" -> o.onln
      [] OTHER -> IF fn = "max" THEN o.conf ELSE o.onln

Call(fn, r1, r2) ==
    LET ret == IF fn = "max"
               THEN get_hardware_concurrency_max(build, r1, r2, os)
               ELSE hardware_concurrency_current(build, r1, r2, os)
    IN  lastCall' = [fn |-> fn, ret |-> ret, count |-> OsCount(build, fn, os),
                     early |-> build.variant = "docker"
                               /\ docker_quota.state # "constructed",
                     env |-> nEnv]

\* The other translation unit's global constructor: it sizes its pool and
\* starts the pool's threads.
ClientConstructor ==
    /\ phase = "static_init"
    /\ initQueue # <<>> /\ Head(initQueue) = "client"
    /\ \E fn \in {"max", "current"} : Call(fn, docker_quota.value, docker_quota.value)
    /\ threads' = [t \in Threads |-> [threads[t] EXCEPT !.pc = "ready"]]
    /\ initQueue' = Tail(initQueue)
    /\ UNCHANGED <<build, client, fs, os, apiLevel, phase, docker_quota, probe,
                   hardware_concurrency_max, slow_thread_signals, nEnv,
                   noQuotaSoFar>>

EnterMain ==
    /\ phase = "static_init"
    /\ initQueue = <<>>
    /\ phase' = "main"
    /\ UNCHANGED <<build, client, fs, os, apiLevel, initQueue, docker_quota,
                   probe, hardware_concurrency_max, slow_thread_signals,
                   threads, lastCall, nEnv, noQuotaSoFar>>

CallMax ==
    /\ phase = "main"
    /\ Call("max", docker_quota.value, docker_quota.value)
    /\ UNCHANGED <<build, client, fs, os, apiLevel, phase, initQueue,
                   docker_quota, probe, hardware_concurrency_max,
                   slow_thread_signals, threads, nEnv, noQuotaSoFar>>

CallCurrent ==
    /\ phase = "main"
    /\ Call("current", docker_quota.value, docker_quota.value)
    /\ UNCHANGED <<build, client, fs, os, apiLevel, phase, initQueue,
                   docker_quota, probe, hardware_concurrency_max,
                   slow_thread_signals, threads, nEnv, noQuotaSoFar>>

\* A pool thread's first use of a resolver: its read of docker_quota.
ThreadFirstUse(t) ==
    /\ phase # "aborted"
    /\ threads[t].pc = "ready"
    /\ \E r \in DqReads :
          threads' = [threads EXCEPT ![t] =
                        [pc |-> IF build.variant = "docker"
                                   /\ docker_quota.state # "constructed"
                                THEN "raced" ELSE "done",
                         seen |-> r]]
    /\ UNCHANGED <<build, client, fs, os, apiLevel, phase, initQueue,
                   docker_quota, probe, hardware_concurrency_max,
                   slow_thread_signals, lastCall, nEnv, noQuotaSoFar>>

(***************************************************************************)
(* The environment, changing while the program runs (what it was before   *)
(* main() is part of the initial state).                                   *)
(***************************************************************************)
\* CPU hotplug: a processor is added or removed, or goes online or offline.
\* (A probe that fails, reporting -1 or 0, goes on failing.)
Hotplug ==
    /\ phase = "main"
    /\ nEnv < MaxEnvChanges
    /\ \E c \in 1 .. MaxCores :
          \/ os.conf >= 1 /\ c \in {os.conf - 1, os.conf + 1}
                /\ os' = [os EXCEPT !.conf = c]
          \/ os.onln >= 1 /\ c \in {os.onln - 1, os.onln + 1}
                /\ os' = [os EXCEPT !.onln = c]
    /\ nEnv' = nEnv + 1
    /\ UNCHANGED <<build, client, fs, apiLevel, phase, initQueue, docker_quota,
                   probe, hardware_concurrency_max, slow_thread_signals,
                   threads, lastCall, noQuotaSoFar>>

\* The container runtime rewrites the quota
RewriteQuotaFiles ==
    /\ phase = "main"
    /\ build.variant = "docker"
    /\ nEnv < MaxEnvChanges
    /\ \/ /\ fs.max.exists
          /\ \E m \in {File(Txt_max), File(Txt_150000_100000)} \ {fs.max} :
                fs' = [fs EXCEPT !.max = m]
       \/ /\ fs.quota.exists
          /\ \E q \in {File(Txt_200000), File(Txt_minus1)} \ {fs.quota} :
                fs' = [fs EXCEPT !.quota = q]
    /\ noQuotaSoFar' = (noQuotaSoFar /\ NoQuota(fs'))
    /\ nEnv' = nEnv + 1
    /\ UNCHANGED <<build, client, os, apiLevel, phase, initQueue, docker_quota,
                   probe, hardware_concurrency_max, slow_thread_signals,
                   threads, lastCall>>

Next ==
    \/ ConstructDockerQuotaBegin
    \/ ConstructDockerQuotaEnd
    \/ ConstructHardwareConcurrencyMax
    \/ ConstructSlowThreadSignals
    \/ ClientConstructor
    \/ EnterMain
    \/ CallMax
    \/ CallCurrent
    \/ \E t \in Threads : ThreadFirstUse(t)
    \/ Hotplug
    \/ RewriteQuotaFiles

Spec == Init /\ [][Next]_vars

(***************************************************************************)
(* Properties.                                                             *)
(***************************************************************************)
Called == lastCall.fn # "none"

Probing == probe.outcome # "none"

\* round_half_up( q / p ) for q, p > 0, computed without an int sum
RoundHalfUp(q, p) == (q \div p) + (IF (q % p) >= p - (q % p) THEN 1 ELSE 0)

\* C1: every call of get_hardware_concurrency_max() and of
\* hardware_concurrency_current() returns a value >= 1, whatever the cgroup
\* files hold and whatever the OS probe returns, zero and negative values
\* included.  (Stated for the calls made once docker_quota is constructed.)
C1_ReturnsAtLeastOne == (Called /\ ~lastCall.early) => lastCall.ret >= 1

\* C2: for strictly positive cfs_quota and cfs_period, get_docker_limit()
\* returns exactly max( 1, round_half_up( cfs_quota / cfs_period ) ).
\* (Stated for the runs that reach the rounding of line 119.)
C2_RoundHalfUpClamped ==
    (probe.outcome \in {"returned", "trap"} /\ probe.cfs_quota > 0 /\ probe.cfs_period > 0)
        => /\ probe.outcome = "returned"
           /\ probe.value = Max2(1, RoundHalfUp(probe.cfs_quota, probe.cfs_period))

\* C3: in the quota-aware build, while the quota is unlimited, non-positive
\* or absent, get_hardware_concurrency_max() returns get_nprocs_conf() and
\* hardware_concurrency_current() returns get_nprocs().
C3_FallsThroughToOsProbe ==
    (build.variant = "docker" /\ noQuotaSoFar /\ Called)
        => lastCall.ret = ToHc(lastCall.count)

\* C4: two calls of get_hardware_concurrency_max() return the same value,
\* whatever happens between them.  (Stated for two successive calls, both
\* made once docker_quota is constructed.)
C4_MaxIsStable ==
    [][(lastCall.fn = "max" /\ ~lastCall.early /\ lastCall'.fn = "max")
          => lastCall'.ret = lastCall.ret]_vars

\* C5: docker_quota is written exactly once, no thread reads it while it is
\* not yet or only partly constructed, and all threads observe the same
\* cached value.
C5_ComputeOncePublish ==
    /\ docker_quota.writes <= 1
    /\ \A t \in Threads : threads[t].pc # "raced"
    /\ \A t, u \in Threads :
          (threads[t].pc \in {"done", "raced"} /\ threads[u].pc \in {"done", "raced"})
              => threads[t].seen = threads[u].seen

\* C6: no call of a resolver from another global object's constructor
\* observes docker_quota in its not yet constructed, zero-initialized state.
C6_ConstructedBeforeAnyUse == Called => ~lastCall.early

\* C7: an I/O failure on a file get_docker_limit() reads (the open, read or
\* close failing; for cpu.max, failing after it opened) makes the call
\* return -1 without an assertion failure, and in the legacy path the value
\* of the failing file is -1.
C7_IoFailureIsAbsent ==
    (Probing /\ probe.failed # {})
        => /\ probe.outcome = "returned"
           /\ probe.value = -1
           /\ "cpu.cfs_quota_us" \in probe.failed => probe.cfs_quota = -1
           /\ "cpu.cfs_period_us" \in probe.failed => probe.cfs_period = -1

\* C8: slow_thread_signals is true exactly when the build is an Android
\* build and the device API level is below 24 (false at 24 and above and on
\* every other platform), and once computed it never changes.
C8_SlowThreadSignals ==
    /\ [](slow_thread_signals.constructed =>
            (slow_thread_signals.value <=> (build.android /\ apiLevel < 24)))
    /\ [](~build.android => ~slow_thread_signals.value)
    /\ [][slow_thread_signals.constructed => slow_thread_signals' = slow_thread_signals]_vars

C8_Witness ==
    /\ build.android
    /\ slow_thread_signals.constructed
    /\ slow_thread_signals.value
    /\ apiLevel = 23
    /\ phase = "main"

\* C9: get_docker_limit() reads the legacy files if and only if opening
\* cpu.max fails; when cpu.max opens, an unlimited or unparsable first token
\* yields -1 whatever the legacy files hold.
C9_UnifiedFirst ==
    Probing =>
        /\ probe.v2 <=> probe.tried = {"cpu.max"}
        /\ ~probe.v2 <=> probe.tried = {"cpu.max", "cpu.cfs_quota_us", "cpu.cfs_period_us"}
        /\ probe.v2 => fs.max.exists /\ probe.opened = {"cpu.max"}
        /\ ~fs.max.exists => ~probe.v2
        /\ (probe.v2 /\ strtol(fs.max.data, 1).val <= 0)
              => probe.outcome \in {"returned", "assert"} /\ probe.value <= 0
        /\ (probe.v2 /\ strtol(fs.max.data, 1).val <= 0 /\ probe.outcome = "returned")
              => probe.value = -1

C9_Witness ==
    /\ Probing
    /\ probe.v2
    /\ fs.max.data = Txt_max
    /\ fs.quota.data = Txt_200000
    /\ fs.period.data = Txt_100000
    /\ probe.outcome = "returned"
    /\ probe.value = -1

=============================================================================
